---- MODULE Spec2Model ----
(***************************************************************************)
(* A model of the stock-analysis tool server:                              *)
(*   - the retry-governed remote call `_call_deepseek` (the "complete()"   *)
(*     of the Remote-Call Client), in its two copies: AIAnalyzer (report   *)
(*     generation) and PromptParser (intent parsing);                      *)
(*   - the identifier lookup `StockLookup` with its reference-list cache.  *)
(***************************************************************************)
EXTENDS Integers, Sequences, FiniteSets, TLC

VARIABLES
    \* ---- remote-call client (one _call_deepseek call) ----
    site,         \* which copy runs: "report" (AIAnalyzer) or "parse" (PromptParser)
    api_key,      \* self.api_key is truthy
    pc,           \* "idle" | "loop" | "returned" | "raised"
    attempt,      \* the for-loop index
    retry_delay,  \* the local retry_delay
    posts,        \* outcomes of the requests.post invocations made so far, in order
    sleeps,       \* arguments of the time.sleep calls made so far, in order
    sleptAfter,   \* for each sleep, the number of the attempt it followed
    result,       \* the returned value, or the kind of the ValueError raised
    \* ---- identifier lookup (the process-wide StockLookup) ----
    cache,        \* self._stock_list_cache: unset (None) or the rows of the list it holds
    fetches,      \* outcomes of the provider calls made so far, in order
    lastOp,       \* the last public method called: its argument, what the provider
                  \* would have done, and the cache it found
    ret,          \* what that call returned
    nOps,         \* number of public calls made (bounded by MaxOps)
    \* ---- metrics engine (DataProcessor on one DataFrame) ----
    df,           \* the DataFrame given to calculate_metrics / get_trend_analysis
    metricsOut,   \* what calculate_metrics returned, once called
    trendOut,     \* what get_trend_analysis returned, once called
    \* ---- report generator (AIAnalyzer.generate_report) ----
    reportPc,     \* "idle", "calling" (inside _call_deepseek), "returned", "raised"
    reportOut,    \* what generate_report returned or raised
    \* ---- prompt parser (PromptParser.parse) ----
    parsePc,      \* "idle", "calling" (inside _call_deepseek), "returned", "raised"
    parseText,    \* the text the remote call returned to parse
    parseOut,     \* what parse returned or raised
    \* ---- tool facade (StockAnalysisTools) ----
    toolOp,       \* the last facade operation called, with its inputs
    toolOut,      \* what it returned, or the fault that crossed the boundary
    nTools,       \* number of facade calls made (bounded by MaxTools)
    \* ---- threads inside StockLookup._get_stock_list at the same time ----
    racePc,       \* per thread: "start", "fetching", "fetched", "stored", "done"
    raceGot,      \* per thread: what the provider did for it, once it fetched
    raceRet,      \* per thread: the cache it returned
    raceLast      \* the thread that assigned the cache last, 0 before any

clientVars == <<site, api_key, pc, attempt, retry_delay, posts, sleeps, sleptAfter, result>>
lookupVars == <<cache, fetches, lastOp, ret, nOps>>
metricVars == <<df, metricsOut, trendOut>>
reportVars == <<reportPc, reportOut>>
parseVars == <<parsePc, parseText, parseOut>>
toolVars == <<toolOp, toolOut, nTools>>
raceVars == <<racePc, raceGot, raceRet, raceLast>>
vars == <<clientVars, lookupVars, metricVars, reportVars, parseVars, toolVars, raceVars>>
nonClientVars == <<lookupVars, metricVars, reportVars, parseVars, toolVars, raceVars>>
nonLookupVars == <<clientVars, metricVars, reportVars, parseVars, toolVars, raceVars>>
nonMetricVars == <<clientVars, lookupVars, reportVars, parseVars, toolVars, raceVars>>
nonReportVars == <<lookupVars, metricVars, parseVars, toolVars, raceVars>>
nonParseVars == <<lookupVars, metricVars, reportVars, toolVars, raceVars>>
nonToolVars == <<clientVars, metricVars, reportVars, parseVars, raceVars>>
nonRaceVars == <<clientVars, metricVars, reportVars, parseVars, toolVars>>

(***************************************************************************)
(* Remote-call client                                                      *)
(***************************************************************************)

\* max_retries = 3 in both copies
max_retries == 3

Sites == {"report", "parse"}

\* retry_delay = 2 (ai_analyzer.py) / retry_delay = 1 (prompt_parser.py)
InitialRetryDelay(s) == IF s = "report" THEN 2 ELSE 1

\* What one requests.post(...) can do: raise a transport exception, or give a
\* response with a status code and a body.
Resp(st, b) == [exc |-> "none", status |-> st, body |-> b]
Exc(e) == [exc |-> e, status |-> 0, body |-> "-"]

ErrorStatusCodes == {400, 401, 429, 500}
Bodies == {"valid", "nullcontent", "nochoices", "emptychoices", "notjson"}

TransportOutcomes ==
    {Resp(200, b) : b \in Bodies}
    \cup {Resp(st, "-") : st \in ErrorStatusCodes}
    \cup {Exc("Timeout"), Exc("ConnectionError")}

\* The try body: post, raise_for_status, json(), the "choices" check.
\* A body whose message content is null passes the check.
\* The class of the exception it raises, "none" when it reaches the return.
Raised(o) ==
    IF o.exc # "none" THEN o.exc
    ELSE IF o.status >= 400 THEN "HTTPError"
    ELSE IF o.body = "notjson" THEN "JSONDecodeError"
    ELSE IF o.body \in {"nochoices", "emptychoices"} THEN "ValueError"
    ELSE "none"

\* `attempt < max_retries - 1`: the handler sleeps and lets the loop go on.
MayRetryMutOffByOne(a) == a < max_retries
MayRetry(a) == a < max_retries - 1

\* `retry_delay *= 2`
BackoffMutConstant(d) == d
Backoff(d) == d * 2

\* The except clauses, in order: Timeout, HTTPError (by status code), Exception.
\* "retry" is the clause's sleep-or-raise branch; kind is what it raises at the end.
HandlerMutRetryAllHTTP(o) ==
    LET e == Raised(o) IN
    IF e = "Timeout" THEN [act |-> "retry", kind |-> "timeout"]
    ELSE IF e = "HTTPError" THEN [act |-> "retry", kind |-> "ratelimit"]
    ELSE [act |-> "retry", kind |-> "failed"]
HandlerMutRetry401(o) ==
    LET e == Raised(o) IN
    IF e = "Timeout" THEN [act |-> "retry", kind |-> "timeout"]
    ELSE IF e = "HTTPError" THEN
        IF o.status = 401 \/ o.status = 429 THEN [act |-> "retry", kind |-> "ratelimit"]
        ELSE [act |-> "raise", kind |-> "http"]
    ELSE [act |-> "retry", kind |-> "failed"]
HandlerMutRetry5xx(o) ==
    LET e == Raised(o) IN
    IF e = "Timeout" THEN [act |-> "retry", kind |-> "timeout"]
    ELSE IF e = "HTTPError" THEN
        IF o.status = 401 THEN [act |-> "raise", kind |-> "auth"]
        ELSE IF o.status = 429 \/ o.status >= 500 THEN [act |-> "retry", kind |-> "ratelimit"]
        ELSE [act |-> "raise", kind |-> "http"]
    ELSE [act |-> "retry", kind |-> "failed"]
HandlerMutGenericKind(o) ==
    LET e == Raised(o) IN
    IF e = "Timeout" THEN [act |-> "retry", kind |-> "failed"]
    ELSE IF e = "HTTPError" THEN
        IF o.status = 401 THEN [act |-> "raise", kind |-> "auth"]
        ELSE IF o.status = 429 THEN [act |-> "retry", kind |-> "failed"]
        ELSE [act |-> "raise", kind |-> "http"]
    ELSE [act |-> "retry", kind |-> "failed"]
Handler(o) ==
    LET e == Raised(o) IN
    IF e = "Timeout" THEN [act |-> "retry", kind |-> "timeout"]
    ELSE IF e = "HTTPError" THEN
        IF o.status = 401 THEN [act |-> "raise", kind |-> "auth"]
        ELSE IF o.status = 429 THEN [act |-> "retry", kind |-> "ratelimit"]
        ELSE [act |-> "raise", kind |-> "http"]
    ELSE [act |-> "retry", kind |-> "failed"]

\* `if not self.api_key`
MissingKeyMutIgnored(k) == FALSE
MissingKey(k) == ~k

Err(kind, st) == [ok |-> FALSE, kind |-> kind, status |-> st]
Content == [ok |-> TRUE, kind |-> "content", status |-> 0]
NoneResult == [ok |-> TRUE, kind |-> "None", status |-> 0]
NoResult == [ok |-> TRUE, kind |-> "-", status |-> 0]

\* Entry of _call_deepseek: the credential check, then the loop starts.
CallDeepseek ==
    /\ pc = "idle"
    /\ IF MissingKey(api_key)
       THEN /\ pc' = "raised"
            /\ result' = Err("config", 0)
            /\ UNCHANGED <<attempt, retry_delay>>
       ELSE /\ pc' = "loop"
            /\ attempt' = 0
            /\ retry_delay' = InitialRetryDelay(site)
            /\ UNCHANGED result
    /\ UNCHANGED <<site, api_key, posts, sleeps, sleptAfter>>
    /\ UNCHANGED nonClientVars

\* One iteration of `for attempt in range(max_retries)`, the transport doing o.
\* When the range is exhausted the function falls off its end and returns None.
Attempt(o) ==
    /\ pc = "loop"
    /\ IF attempt >= max_retries
       THEN /\ pc' = "returned"
            /\ result' = NoneResult
            /\ UNCHANGED <<attempt, retry_delay, posts, sleeps, sleptAfter>>
       ELSE /\ posts' = Append(posts, o)
            /\ IF Raised(o) = "none"
               THEN /\ pc' = "returned"
                    /\ result' = (IF o.body = "nullcontent" THEN NoneResult ELSE Content)
                    /\ UNCHANGED <<attempt, retry_delay, sleeps, sleptAfter>>
               ELSE LET h == Handler(o) IN
                    IF h.act = "retry" /\ MayRetry(attempt)
                    THEN /\ sleeps' = Append(sleeps, retry_delay)
                         /\ sleptAfter' = Append(sleptAfter, Len(posts'))
                         /\ retry_delay' = Backoff(retry_delay)
                         /\ attempt' = attempt + 1
                         /\ UNCHANGED <<pc, result>>
                    ELSE /\ pc' = "raised"
                         /\ result' = Err(h.kind, IF h.kind = "http" THEN o.status ELSE 0)
                         /\ UNCHANGED <<attempt, retry_delay, sleeps, sleptAfter>>
    /\ UNCHANGED <<site, api_key>>
    /\ UNCHANGED nonClientVars

InitClient ==
    /\ site \in Sites
    /\ api_key \in BOOLEAN
    /\ pc = "idle"
    /\ attempt = 0
    /\ retry_delay = 0
    /\ posts = <<>>
    /\ sleeps = <<>>
    /\ sleptAfter = <<>>
    /\ result = NoResult

(***************************************************************************)
(* Identifier lookup                                                       *)
(*                                                                         *)
(* Strings are sequences of one-character strings.  Identifiers are drawn  *)
(* from Identifiers: letters, digits, the blank, "." and "(".              *)
(***************************************************************************)

\* Number of public StockLookup calls one behaviour makes.
MaxOps == 3

\* s[i..] starts with sub
IsPrefixAt(s, sub, i) ==
    /\ i + Len(sub) - 1 <= Len(s)
    /\ \A k \in 1..Len(sub) : s[i + k - 1] = sub[k]

\* Python str.replace(old, ""): left to right, non-overlapping.
RECURSIVE Remove(_, _)
Remove(s, old) ==
    IF s = <<>> THEN <<>>
    ELSE IF IsPrefixAt(s, old, 1) THEN Remove(SubSeq(s, Len(old) + 1, Len(s)), old)
    ELSE <<Head(s)>> \o Remove(Tail(s), old)

\* Python str.strip()
RECURSIVE LStrip(_)
LStrip(s) == IF s # <<>> /\ Head(s) = " " THEN LStrip(Tail(s)) ELSE s
RECURSIVE RStrip(_)
RStrip(s) == IF s # <<>> /\ s[Len(s)] = " " THEN RStrip(SubSeq(s, 1, Len(s) - 1)) ELSE s
Strip(s) == RStrip(LStrip(s))

HasDot(s) == \E i \in 1..Len(s) : s[i] = "."

\* Index of the first "." of s at or after position from, Len(s) + 1 when none.
RECURSIVE DotFrom(_, _)
DotFrom(s, from) ==
    IF from > Len(s) THEN Len(s) + 1
    ELSE IF s[from] = "." THEN from
    ELSE DotFrom(s, from + 1)

\* stock_identifier.split(".")[0] and [1], for an identifier that has a "."
SplitDot0(s) == SubSeq(s, 1, DotFrom(s, 1) - 1)
SplitDot1(s) == SubSeq(s, DotFrom(s, 1) + 1, DotFrom(s, DotFrom(s, 1) + 1) - 1)

\* Series.str.contains(pat) takes pat as a regular expression: "." matches any
\* character, an unbalanced "(" does not compile (re.error), the rest is literal.
RegexCompiles(pat) == \A k \in 1..Len(pat) : pat[k] # "("
RegexSearch(s, pat) ==
    \E i \in 1..(Len(s) + 1) :
        /\ i + Len(pat) - 1 <= Len(s)
        /\ \A k \in 1..Len(pat) : pat[k] = "." \/ s[i + k - 1] = pat[k]

\* code.startswith("6") -> SH; "0" or "3" -> SZ; otherwise SH
MarketSuffix(code) ==
    IF IsPrefixAt(code, <<"6">>, 1) THEN <<"S", "H">>
    ELSE IF IsPrefixAt(code, <<"0">>, 1) \/ IsPrefixAt(code, <<"3">>, 1) THEN <<"S", "Z">>
    ELSE <<"S", "H">>

Row(c, n) == [code |-> c, name |-> n]

\* Reference lists the provider can return (the code and name columns).
ListA ==
    << Row(<<"6","0","0","5","1","9">>, <<"M","T">>),
       Row(<<"0","0","0","0","0","1">>, <<"P","A">>),
       Row(<<"3","0","0","7","5","0">>, <<"N","D">>),
       Row(<<"8","3","0","7","9","9">>, <<"A">>) >>
ListB ==
    << Row(<<"6","0","0","0","0","0">>, <<"P","F">>),
       Row(<<"6","0","0","5","1","9">>, <<"M","T">>) >>

\* What ak.stock_info_a_code_name() can do on one call.
ProviderOutcomes ==
    { [raises |-> TRUE, rows |-> <<>>],
      [raises |-> FALSE, rows |-> <<>>],
      [raises |-> FALSE, rows |-> ListA],
      [raises |-> FALSE, rows |-> ListB] }

Identifiers ==
    { <<"M","T">>, <<"A">>, <<"P">>, <<"Z">>, <<>>, <<"(">>,
      <<"6","0","0","5","1","9">>, <<"0","0","0","0","0","1">>,
      <<"8","3","0","7","9","9">>, <<"1","2","3","4","5","6">>,
      <<" ","6","0","0","5","1","9">>,
      <<" ","6","0","0","5","1","9",".","S","H">>,
      <<"P","A">>, <<"3","0","0","7","5","0">>,
      <<"6","0","0","5","1","9",".","S","H">>,
      <<"0","0","0","0","0","1",".","S","H">>,
      <<"6","0","0","5","1","9",".">>,
      <<"3","0","0","7","5","0",".","x",".","y">>,
      <<"M","T",".","S","Z">> }

Unset == [set |-> FALSE, rows |-> <<>>]
Populated(rows) == [set |-> TRUE, rows |-> rows]

RetNone == [kind |-> "None", code |-> <<>>, name |-> <<>>, val |-> FALSE]
RetPair(c, n) == [kind |-> "pair", code |-> c, name |-> n, val |-> FALSE]
RetBool(b) == [kind |-> "bool", code |-> <<>>, name |-> <<>>, val |-> b]
RetRaise == [kind |-> "raise", code |-> <<>>, name |-> <<>>, val |-> FALSE]

\* `if self._stock_list_cache is None`
NeedsFetchMutEmptyToo(c) == ~c.set \/ c.rows = <<>>
NeedsFetch(c) == ~c.set

GetStockListMutNoCacheOnFail(c, p) ==
    IF NeedsFetch(c)
    THEN [cache |-> IF p.raises THEN c ELSE Populated(p.rows), fetched |-> <<p>>]
    ELSE [cache |-> c, fetched |-> <<>>]

\* _get_stock_list on cache c, the provider doing p if it is called:
\* the cache afterwards and the provider calls made.
GetStockList(c, p) ==
    IF NeedsFetch(c)
    THEN [cache |-> Populated(IF p.raises THEN <<>> ELSE p.rows), fetched |-> <<p>>]
    ELSE [cache |-> c, fetched |-> <<>>]

\* The first of the row indexes in hits, as stock_list[mask].iloc[0]; 0 when
\* the mask selects nothing.
FirstIndex(hits) ==
    IF hits = {} THEN 0 ELSE CHOOSE i \in hits : \A j \in hits : i <= j

LookupByNameMutFuzzyFirst(c, p, stock_name) ==
    LET g == GetStockList(c, p)
        rows == g.cache.rows
        fuzzy == FirstIndex({i \in 1..Len(rows) : RegexSearch(rows[i].name, stock_name)})
    IN  [cache |-> g.cache, fetched |-> g.fetched,
         ret |-> IF rows = <<>> THEN RetNone
                 ELSE IF ~RegexCompiles(stock_name) THEN RetRaise
                 ELSE IF fuzzy # 0 THEN RetPair(rows[fuzzy].code, rows[fuzzy].name)
                 ELSE RetNone]

\* lookup_by_name: cache afterwards, provider calls made, value returned
LookupByName(c, p, stock_name) ==
    LET g == GetStockList(c, p)
        rows == g.cache.rows
        exact == FirstIndex({i \in 1..Len(rows) : rows[i].name = stock_name})
        fuzzy == FirstIndex({i \in 1..Len(rows) : RegexSearch(rows[i].name, stock_name)})
    IN  [cache |-> g.cache, fetched |-> g.fetched,
         ret |-> IF rows = <<>> THEN RetNone
                 ELSE IF exact # 0 THEN RetPair(rows[exact].code, rows[exact].name)
                 ELSE IF ~RegexCompiles(stock_name) THEN RetRaise
                 ELSE IF fuzzy # 0 THEN RetPair(rows[fuzzy].code, rows[fuzzy].name)
                 ELSE RetNone]

\* lookup_by_code
LookupByCode(c, p, stock_code) ==
    LET code == Strip(Remove(Remove(stock_code, <<".","S","H">>), <<".","S","Z">>))
        g == GetStockList(c, p)
        rows == g.cache.rows
        exact == FirstIndex({i \in 1..Len(rows) : rows[i].code = code})
    IN  [cache |-> g.cache, fetched |-> g.fetched,
         ret |-> IF rows = <<>> THEN RetNone
                 ELSE IF exact # 0 THEN RetPair(code, rows[exact].name)
                 ELSE RetNone]

WithSuffix(code, suffix) == code \o <<".">> \o suffix

NormalizeCodeMutNameFallback(c, p, stock_identifier) ==
    LET code_part == IF HasDot(stock_identifier) THEN SplitDot0(stock_identifier)
                     ELSE stock_identifier
        suffix == IF HasDot(stock_identifier) THEN SplitDot1(stock_identifier) ELSE <<>>
        byCode == LookupByCode(c, p, code_part)
        byName == LookupByName(byCode.cache, p, code_part)
        hit == IF byCode.ret.kind = "pair" THEN byCode.ret ELSE byName.ret
    IN  [cache |-> byName.cache, fetched |-> byCode.fetched \o byName.fetched,
         ret |-> IF hit.kind = "pair"
                 THEN RetPair(WithSuffix(hit.code,
                                  IF suffix = <<>> THEN MarketSuffix(hit.code) ELSE suffix),
                              hit.name)
                 ELSE hit]

\* normalize_code
NormalizeCode(c, p, stock_identifier) ==
    IF HasDot(stock_identifier)
    THEN LET code_part == SplitDot0(stock_identifier)
             suffix == SplitDot1(stock_identifier)
             r == LookupByCode(c, p, code_part)
         IN  [cache |-> r.cache, fetched |-> r.fetched,
              ret |-> IF r.ret.kind = "pair"
                      THEN RetPair(WithSuffix(r.ret.code,
                                       IF suffix = <<>> THEN MarketSuffix(r.ret.code) ELSE suffix),
                                   r.ret.name)
                      ELSE RetNone]
    ELSE LET byName == LookupByName(c, p, stock_identifier)
             byCode == LookupByCode(byName.cache, p, stock_identifier)
         IN  IF byName.ret.kind = "raise"
             THEN byName
             ELSE IF byName.ret.kind = "pair"
             THEN [cache |-> byName.cache, fetched |-> byName.fetched,
                   ret |-> RetPair(WithSuffix(byName.ret.code, MarketSuffix(byName.ret.code)),
                                   byName.ret.name)]
             ELSE [cache |-> byCode.cache, fetched |-> byName.fetched \o byCode.fetched,
                   ret |-> IF byCode.ret.kind = "pair"
                           THEN RetPair(WithSuffix(byCode.ret.code, MarketSuffix(byCode.ret.code)),
                                        byCode.ret.name)
                           ELSE RetNone]

\* validate_code
ValidateCode(c, p, stock_code) ==
    LET r == NormalizeCode(c, p, stock_code) IN
    [cache |-> r.cache, fetched |-> r.fetched,
     ret |-> IF r.ret.kind = "raise" THEN RetRaise ELSE RetBool(r.ret.kind # "None")]

\* One public call on the global stock_lookup; r is what the method computes.
Finish(op, p, arg, r) ==
    /\ nOps < MaxOps
    /\ cache' = r.cache
    /\ fetches' = fetches \o r.fetched
    /\ ret' = r.ret
    /\ lastOp' = [op |-> op, arg |-> arg, provider |-> p, cacheBefore |-> cache]
    /\ nOps' = nOps + 1
    /\ UNCHANGED nonLookupVars

CallLookupByName(p, arg) == Finish("lookup_by_name", p, arg, LookupByName(cache, p, arg))
CallLookupByCode(p, arg) == Finish("lookup_by_code", p, arg, LookupByCode(cache, p, arg))
CallNormalizeCode(p, arg) == Finish("normalize_code", p, arg, NormalizeCode(cache, p, arg))
CallValidateCode(p, arg) == Finish("validate_code", p, arg, ValidateCode(cache, p, arg))

NoOp == [op |-> "-", arg |-> <<>>, provider |-> [raises |-> FALSE, rows |-> <<>>], cacheBefore |-> Unset]

InitLookup ==
    /\ cache = Unset
    /\ fetches = <<>>
    /\ lastOp = NoOp
    /\ ret = RetNone
    /\ nOps = 0

(***************************************************************************)
(* Metrics engine                                                          *)
(*                                                                         *)
(* Numbers are exact: a rational num/den in lowest terms, coef times the    *)
(* square root of one (root), or NaN.  Closing prices are positive         *)
(* integers.                                                               *)
(***************************************************************************)

\* Rows of a DataFrame and the prices in it.
MaxRows == 4
MaxPrice == 3

Abs(x) == IF x < 0 THEN -x ELSE x

RECURSIVE GCD(_, _)
GCD(a, b) == IF b = 0 THEN a ELSE GCD(b, a % b)

Rat(n, d) ==
    LET g == GCD(Abs(n), Abs(d))
        sgn == IF d < 0 THEN -1 ELSE 1
    IN  [nan |-> FALSE, root |-> FALSE, coef |-> 1,
         num |-> sgn * (n \div g), den |-> sgn * (d \div g)]
NaN == [nan |-> TRUE, root |-> FALSE, coef |-> 1, num |-> 0, den |-> 1]
Zero == Rat(0, 1)
RAdd(a, b) == Rat(a.num * b.den + b.num * a.den, a.den * b.den)
RSub(a, b) == Rat(a.num * b.den - b.num * a.den, a.den * b.den)
RMul(a, b) == Rat(a.num * b.num, a.den * b.den)
RDiv(a, b) == Rat(a.num * b.den, a.den * b.num)
RLess(a, b) == a.num * b.den < b.num * a.den
\* k times the square root of a rational that is >= 0
RSqrt(k, a) ==
    IF a.num = 0 THEN Zero
    ELSE [nan |-> FALSE, root |-> TRUE, coef |-> k, num |-> a.num, den |-> a.den]

RECURSIVE RSum(_)
RSum(q) == IF q = <<>> THEN Zero ELSE RAdd(Head(q), RSum(Tail(q)))
RECURSIVE RProd(_)
RProd(q) == IF q = <<>> THEN Rat(1, 1) ELSE RMul(Head(q), RProd(Tail(q)))
\* the greatest and the least element of a non-empty sequence of rationals
RMaxOf(q) == q[CHOOSE i \in 1..Len(q) : \A j \in 1..Len(q) : ~RLess(q[i], q[j])]
RMinOf(q) == q[CHOOSE i \in 1..Len(q) : \A j \in 1..Len(q) : ~RLess(q[j], q[i])]
\* Series.idxmax() / idxmin(): the first position of the greatest / least value
IdxMax(q) == CHOOSE i \in 1..Len(q) :
    /\ \A j \in 1..Len(q) : ~RLess(q[i], q[j])
    /\ \A j \in 1..(i - 1) : RLess(q[j], q[i])
IdxMin(q) == CHOOSE i \in 1..Len(q) :
    /\ \A j \in 1..Len(q) : ~RLess(q[j], q[i])
    /\ \A j \in 1..(i - 1) : RLess(q[i], q[j])

\* Column names, as character sequences; U6536 U76D8 are the two characters of
\* the Chinese word for "close", U6210 U4EA4 U91CF those of "volume".
ColDate == <<"d","a","t","e">>
ColOpen == <<"o","p","e","n">>
ColClose == <<"c","l","o","s","e">>
ColCloseCap == <<"C","l","o","s","e">>
ColCloseZh == <<"U6536","U76D8">>
ColAdjClose == <<"a","d","j","_","c","l","o","s","e">>
ColHigh == <<"h","i","g","h">>
ColLow == <<"l","o","w">>
ColVolume == <<"v","o","l","u","m","e">>
ColVolumeZh == <<"U6210","U4EA4","U91CF">>

\* str.lower(), on the letters the column names use
LowerChar(ch) == IF ch = "C" THEN "c" ELSE ch
Lower(col) == [i \in 1..Len(col) |-> LowerChar(col[i])]

\* `sub in s`
InStr(sub, s) == \E i \in 1..(Len(s) + 1) : IsPrefixAt(s, sub, i)

\* The if/elif chain of calculate_metrics: the field a column name is taken for.
ColField(col) ==
    IF InStr(<<"U6536","U76D8">>, col) \/ InStr(<<"c","l","o","s","e">>, Lower(col)) THEN "close"
    ELSE IF InStr(<<"U5F00","U76D8">>, col) \/ InStr(<<"o","p","e","n">>, Lower(col)) THEN "open"
    ELSE IF InStr(<<"U6700","U9AD8">>, col) \/ InStr(<<"h","i","g","h">>, Lower(col)) THEN "high"
    ELSE IF InStr(<<"U6700","U4F4E">>, col) \/ InStr(<<"l","o","w">>, Lower(col)) THEN "low"
    ELSE IF InStr(<<"U6210","U4EA4","U91CF">>, col) \/ InStr(<<"v","o","l","u","m","e">>, Lower(col))
         THEN "volume"
    ELSE "none"

\* The loop of calculate_metrics assigns on every match: the last one stays.
\* 0 stands for None.
LastIndex(hits) == IF hits = {} THEN 0 ELSE CHOOSE i \in hits : \A j \in hits : j <= i
MetricsColumnMutFirst(cols, field) == FirstIndex({i \in 1..Len(cols) : ColField(cols[i]) = field})
MetricsColumn(cols, field) == LastIndex({i \in 1..Len(cols) : ColField(cols[i]) = field})

\* The loop of get_trend_analysis breaks at the first match.
TrendCloseColumn(cols) ==
    FirstIndex({i \in 1..Len(cols) :
        InStr(<<"U6536","U76D8">>, cols[i]) \/ InStr(<<"c","l","o","s","e">>, Lower(cols[i]))})

\* The column layouts of the frames given to the engine.
Layouts ==
    { <<ColDate, ColOpen, ColClose, ColHigh, ColLow, ColVolume>>,
      <<ColCloseZh, ColVolumeZh>>,
      <<ColCloseCap>>,
      <<ColDate, ColOpen>>,
      <<ColClose, ColAdjClose>>,
      <<>> }

RECURSIVE Reverse(_)
Reverse(q) == IF q = <<>> THEN <<>> ELSE Append(Reverse(Tail(q)), Head(q))

\* The values of column col of a frame whose closing prices are closes: an
\* adjusted-close column holds them in reverse, a volume column multiples of
\* 100, any other column the closes.
ColumnValues(col, closes) ==
    IF col = ColAdjClose THEN Reverse(closes)
    ELSE IF ColField(col) = "volume" THEN [i \in 1..Len(closes) |-> 100 * closes[i] + i]
    ELSE closes

Frame(cols, closes) ==
    [none |-> FALSE, columns |-> cols, nrows |-> Len(closes),
     data |-> [c \in 1..Len(cols) |-> ColumnValues(cols[c], closes)]]
NoneFrame == [none |-> TRUE, columns |-> <<>>, nrows |-> 0, data |-> <<>>]

PriceSeqs == UNION {[1..n -> 1..MaxPrice] : n \in 0..MaxRows}
Frames == {Frame(cols, closes) : cols \in Layouts, closes \in PriceSeqs} \cup {NoneFrame}

\* `df is None or df.empty`: no rows or no columns
IsEmptyFrame(f) == f.none \/ f.nrows = 0 \/ f.columns = <<>>

AsRats(q) == [i \in 1..Len(q) |-> Rat(q[i], 1)]
Hundred == Rat(100, 1)

\* Series.pct_change().dropna(): the day-over-day returns, one fewer than prices
DailyReturns(c) == [i \in 1..(Len(c) - 1) |-> RSub(RDiv(c[i + 1], c[i]), Rat(1, 1))]

\* (1 + daily_returns).cumprod()
Cumulative(r) == [k \in 1..Len(r) |-> RProd([i \in 1..k |-> RAdd(Rat(1, 1), r[i])])]
\* cumulative.expanding().max()
RunningMaxMutWhole(q) == [k \in 1..Len(q) |-> RMaxOf(q)]
RunningMax(q) == [k \in 1..Len(q) |-> RMaxOf(SubSeq(q, 1, k))]
\* ((cumulative - running_max) / running_max).min() * 100; min() of an empty
\* Series is NaN
MaxDrawdownPct(r) ==
    LET cum == Cumulative(r)
        rmax == RunningMax(cum)
        dd == [k \in 1..Len(r) |-> RDiv(RSub(cum[k], rmax[k]), rmax[k])]
    IN  IF Len(r) = 0 THEN NaN ELSE RMul(RMinOf(dd), Hundred)

\* Series.std() (ddof = 1) * sqrt(252) * 100; NaN for fewer than two values
StdSamplesMutPopulation(r) == Len(r)
StdSamples(r) == Len(r) - 1
VolatilityPct(r) ==
    LET n == Len(r)
        mean == RDiv(RSum(r), Rat(n, 1))
        sq == [i \in 1..n |-> RMul(RSub(r[i], mean), RSub(r[i], mean))]
    IN  IF StdSamples(r) <= 0 THEN NaN
        ELSE RSqrt(100, RMul(RDiv(RSum(sq), Rat(StdSamples(r), 1)), Rat(252, 1)))

K(key, val) == key :> val
EmptyDict == [k \in {} |-> NaN]

\* The `len(close_prices) > 1` blocks of calculate_metrics
MoreThanOneMutAlways(c) == TRUE
MoreThanOne(c) == Len(c) > 1

CloseMetrics(c) ==
    K("latest_close", c[Len(c)]) @@ K("max_close", RMaxOf(c)) @@ K("min_close", RMinOf(c))
    @@ K("mean_close", RDiv(RSum(c), Rat(Len(c), 1)))

ChangeMetrics(c) ==
    LET change == RSub(c[Len(c)], c[1]) IN
    IF MoreThanOne(c)
    THEN K("change", change) @@ K("change_pct", RMul(RDiv(change, c[1]), Hundred))
    ELSE EmptyDict

RunupMetrics(c) ==
    LET maxIdx == IdxMax(c)
        minIdx == IdxMin(SubSeq(c, 1, maxIdx))
    IN  IF minIdx < maxIdx
        THEN K("max_runup_pct", RMul(RDiv(RSub(c[maxIdx], c[minIdx]), c[minIdx]), Hundred))
        ELSE EmptyDict

ReturnMetrics(c) ==
    LET r == DailyReturns(c) IN
    IF MoreThanOne(c)
    THEN (IF Len(r) > 0
          THEN K("max_daily_gain_pct", RMul(RMaxOf(r), Hundred))
               @@ K("max_daily_loss_pct", RMul(RMinOf(r), Hundred))
          ELSE EmptyDict)
         @@ K("max_drawdown_pct", MaxDrawdownPct(r))
         @@ RunupMetrics(c)
    ELSE EmptyDict

VolatilityMetrics(c) ==
    LET r == DailyReturns(c) IN
    IF MoreThanOne(c) /\ Len(r) > 0 THEN K("volatility_pct", VolatilityPct(r)) ELSE EmptyDict

VolumeMetrics(v) ==
    K("mean_volume", RDiv(RSum(v), Rat(Len(v), 1))) @@ K("max_volume", RMaxOf(v))
    @@ K("latest_volume", v[Len(v)])

\* calculate_metrics
CalculateMetrics(f) ==
    LET closeCol == MetricsColumn(f.columns, "close")
        volumeCol == MetricsColumn(f.columns, "volume")
        c == AsRats(f.data[closeCol])
    IN  IF IsEmptyFrame(f) THEN EmptyDict
        ELSE IF closeCol = 0 THEN EmptyDict
        ELSE CloseMetrics(c) @@ ChangeMetrics(c) @@ ReturnMetrics(c) @@ VolatilityMetrics(c)
             @@ (IF volumeCol # 0 THEN VolumeMetrics(AsRats(f.data[volumeCol])) ELSE EmptyDict)

\* get_trend_analysis returns {} or the three-key mapping.
EmptyTrend == [empty |-> TRUE, direction |-> "-", strength |-> "-", described |-> FALSE, pct |-> NaN]
DefaultTrend ==
    [empty |-> FALSE, direction |-> "flat", strength |-> "weak", described |-> FALSE, pct |-> NaN]

\* n * sum(a*b) - sum(a) * sum(b): n times the co-moment of two integer sequences
RECURSIVE Dot(_, _)
Dot(a, b) == IF a = <<>> THEN 0 ELSE Head(a) * Head(b) + Dot(Tail(a), Tail(b))
Ones(n) == [i \in 1..n |-> 1]
CoMoment(a, b) == Len(a) * Dot(a, b) - Dot(a, Ones(Len(a))) * Dot(b, Ones(Len(b)))

\* `len(close_prices) < 2`
TooShortMutOne(y) == Len(y) < 1
TooShort(y) == Len(y) < 2

\* The least-squares line of y against 0..n-1: the sign of its slope and its R^2
\* (0 when the total variance is 0).
FitTrend(y) ==
    LET x == [i \in 1..Len(y) |-> i - 1]
        sxy == CoMoment(x, y)
        sxx == CoMoment(x, x)
        syy == CoMoment(y, y)
        r2 == IF syy > 0 THEN Rat(sxy * sxy, sxx * syy) ELSE Zero
        direction == IF sxy > 0 THEN "up" ELSE IF sxy < 0 THEN "down" ELSE "flat"
        strength == IF RLess(Rat(7, 10), r2) THEN "strong"
                    ELSE IF RLess(Rat(4, 10), r2) THEN "medium" ELSE "weak"
    IN  [empty |-> FALSE, direction |-> direction, strength |-> strength, described |-> TRUE,
         pct |-> Rat((y[Len(y)] - y[1]) * 100, y[1])]

\* get_trend_analysis
GetTrendAnalysis(f) ==
    LET closeCol == TrendCloseColumn(f.columns) IN
    IF IsEmptyFrame(f) THEN EmptyTrend
    ELSE IF closeCol = 0 THEN EmptyTrend
    ELSE IF TooShort(f.data[closeCol]) THEN DefaultTrend
    ELSE FitTrend(f.data[closeCol])

NotCalled == [called |-> FALSE, value |-> EmptyDict]
Returned(v) == [called |-> TRUE, value |-> v]
TrendNotCalled == [called |-> FALSE, value |-> EmptyTrend]

CallCalculateMetrics ==
    /\ ~metricsOut.called
    /\ metricsOut' = Returned(CalculateMetrics(df))
    /\ UNCHANGED <<df, trendOut>>
    /\ UNCHANGED nonMetricVars

CallGetTrendAnalysis ==
    /\ ~trendOut.called
    /\ trendOut' = Returned(GetTrendAnalysis(df))
    /\ UNCHANGED <<df, metricsOut>>
    /\ UNCHANGED nonMetricVars

MetricsIdle ==
    /\ df = NoneFrame
    /\ metricsOut = NotCalled
    /\ trendOut = TrendNotCalled

InitMetrics ==
    /\ df \in Frames
    /\ metricsOut = NotCalled
    /\ trendOut = TrendNotCalled

(***************************************************************************)
(* Report generator                                                        *)
(***************************************************************************)

\* What the preparation before the try block does: it completes, or one of its
\* steps raises (format_stock_data_summary on a close column that is not
\* numeric, format_metrics_table on metrics that is no mapping,
\* get_trend_analysis on prices that are not numeric, requirements that is no
\* mapping).  The first three run only when there is data.
PrepSteps == {"summary", "metrics_table", "trend", "requirements"}
PrepOutcomes == {"ok"} \cup PrepSteps
PrepRaises(hasData, prep) == prep = "requirements" \/ (hasData /\ prep \in {"summary", "metrics_table", "trend"})

NoReport == [kind |-> "-", cause |-> "-"]
ReportText == [kind |-> "text", cause |-> "-"]
ReportErrorText(cause) == [kind |-> "error_text", cause |-> cause]
ReportRaised(cause) == [kind |-> "raised", cause |-> cause]

\* try: report = self._call_deepseek(...); return report.strip()
\* except Exception as e: return the error text
ReportOfCallMutPropagate(r) ==
    IF ~r.ok THEN ReportRaised(r.kind)
    ELSE IF r.kind = "None" THEN ReportRaised("AttributeError")
    ELSE ReportText
ReportOfCall(r) ==
    IF ~r.ok THEN ReportErrorText(r.kind)
    ELSE IF r.kind = "None" THEN ReportErrorText("AttributeError")
    ELSE ReportText

\* generate_report up to the try block
GenerateReport(hasData, prep) ==
    /\ reportPc = "idle"
    /\ pc = "idle"
    /\ IF prep # "ok" /\ PrepRaises(hasData, prep)
       THEN /\ reportPc' = "raised"
            /\ reportOut' = ReportRaised(prep)
       ELSE /\ reportPc' = "calling"
            /\ UNCHANGED reportOut
    /\ UNCHANGED clientVars
    /\ UNCHANGED nonReportVars

ReportCallDeepseek == reportPc = "calling" /\ CallDeepseek
ReportAttempt(o) == reportPc = "calling" /\ Attempt(o)

\* the end of the try block, or its except clause
ReportReturn ==
    /\ reportPc = "calling"
    /\ pc \in {"returned", "raised"}
    /\ reportPc' = "returned"
    /\ reportOut' = ReportOfCall(result)
    /\ UNCHANGED clientVars
    /\ UNCHANGED nonReportVars

ReportIdle ==
    /\ reportPc = "idle"
    /\ reportOut = NoReport

(***************************************************************************)
(* Prompt parser                                                           *)
(***************************************************************************)

\* settings.DEFAULT_REPORT_LENGTH, whatever the configuration makes it
DEFAULT_REPORT_LENGTH == "DEFAULT_REPORT_LENGTH"

\* The JSON documents the remote model can answer with.  "absent" marks a key
\* the document does not have.
JsonDoc(st, ds, de, rel, dt, req, len, me) ==
    [stocks |-> st, date_start |-> ds, date_end |-> de, relative_date |-> rel,
     data_type |-> dt, requirements |-> req, report_length |-> len, metrics |-> me]
JsonObjects ==
    { JsonDoc(<<"600519">>, "2024-01-01", "2024-06-30", "absent", "weekly", "given", "800", <<"MA">>),
      JsonDoc(<<"600519">>, "absent", "absent", "absent", "absent", "absent", "absent", <<>>),
      JsonDoc(<<"600519">>, "absent", "absent", "1y", "daily", "given", "absent", <<>>) }

\* A payload: text that is no JSON (the empty text included), JSON that is no
\* object, or an object.
Payload(k, doc) == [kind |-> k, doc |-> doc]
NoDoc == JsonDoc(<<>>, "absent", "absent", "absent", "absent", "absent", "absent", <<>>)
Payloads ==
    {Payload("notjson", NoDoc), Payload("empty", NoDoc), Payload("array", NoDoc)}
    \cup {Payload("object", d) : d \in JsonObjects}

\* A response text: the payload, or the payload inside a ```json or a ``` fence
\* with prose around it, or the payload with prose and no fence.
Fences == {"json", "bare", "none"}
Text(fence, prose, payload) == [fence |-> fence, prose |-> prose, payload |-> payload]
ResponseTexts == {Text(f, pr, pl) : f \in Fences, pr \in BOOLEAN, pl \in Payloads}
NoText == Text("none", FALSE, Payload("empty", NoDoc))

\* The split on the fence and strip(): what json.loads is given.  Prose around
\* an unfenced payload stays in it.
ExtractJson(text) ==
    IF text.fence \in {"json", "bare"} THEN text.payload
    ELSE IF text.prose THEN Payload("notjson", NoDoc)
    ELSE text.payload

\* json.loads raises JSONDecodeError
JsonInvalid(payload) == payload.kind \in {"notjson", "empty"}

NoIntent == [kind |-> "-", cause |-> "-", intent |-> NoDoc]
Intent(doc) == [kind |-> "intent", cause |-> "-", intent |-> doc]
ParseRaised(cause) == [kind |-> "raised", cause |-> cause, intent |-> NoDoc]

\* the mapping returned by the JSONDecodeError clause
DefaultIntent ==
    JsonDoc(<<>>, "None", "None", "absent", "daily", "given", DEFAULT_REPORT_LENGTH, <<>>)

\* calculate_relative_date, and the defaults set on a parsed object
CompleteIntent(doc) ==
    LET relative == doc.relative_date # "absent" /\ doc.date_start = "absent" IN
    [doc EXCEPT
        !.date_start = IF relative THEN "relative_start" ELSE @,
        !.date_end = IF relative THEN "relative_end" ELSE @,
        !.data_type = IF @ = "absent" THEN "daily" ELSE @,
        !.requirements = "given",
        !.report_length = IF @ = "absent" THEN DEFAULT_REPORT_LENGTH ELSE @]

\* The except clauses of parse: JSONDecodeError returns the default intent,
\* every other exception is raised again as ValueError.
OnJSONDecodeErrorMutRaise(text) == ParseRaised("ValueError")
OnJSONDecodeError(text) == Intent(DefaultIntent)

\* parse, given what _call_deepseek did and, when it returned, its text
ParseOfCall(r, text) ==
    IF ~r.ok THEN ParseRaised("ValueError")
    ELSE IF r.kind = "None" THEN ParseRaised("ValueError")
    ELSE IF JsonInvalid(ExtractJson(text)) THEN OnJSONDecodeError(text)
    ELSE IF ExtractJson(text).kind # "object" THEN ParseRaised("ValueError")
    ELSE Intent(CompleteIntent(ExtractJson(text).doc))

\* parse up to the remote call
Parse ==
    /\ parsePc = "idle"
    /\ pc = "idle"
    /\ parsePc' = "calling"
    /\ UNCHANGED <<parseText, parseOut>>
    /\ UNCHANGED clientVars
    /\ UNCHANGED nonParseVars

ParseCallDeepseek == parsePc = "calling" /\ CallDeepseek
ParseAttempt(o) == parsePc = "calling" /\ Attempt(o)

\* the rest of the try block, or one of the except clauses
ParseReturn(text) ==
    /\ parsePc = "calling"
    /\ pc \in {"returned", "raised"}
    /\ text \in (IF result = Content THEN ResponseTexts ELSE {NoText})
    /\ parseText' = text
    /\ parseOut' = ParseOfCall(result, text)
    /\ parsePc' = (IF parseOut'.kind = "raised" THEN "raised" ELSE "returned")
    /\ UNCHANGED clientVars
    /\ UNCHANGED nonParseVars

ParseIdle ==
    /\ parsePc = "idle"
    /\ parseText = NoText
    /\ parseOut = NoIntent

(***************************************************************************)
(* Tool facade                                                             *)
(***************************************************************************)

\* Facade calls in one behaviour, and the rows of the data given to
\* calculate_indicators.
MaxTools == 2
MaxIndicatorRows == 1

NoTool == [kind |-> "-", error |-> "-"]
ToolError(msg) == [kind |-> "error", error |-> msg]
ToolSuccess(shape) == [kind |-> shape, error |-> "-"]
ToolRaised(exc) == [kind |-> "raised", error |-> exc]

\* `except Exception as e: return {"error": str(e)}`
OnExceptionMutPropagate(exc) == ToolRaised(exc)
OnException(exc) == ToolError(exc)

\* What ak.stock_zh_a_hist does for fetch_daily_data: a frame, a frame with a
\* date that cannot be rendered, an empty frame, None, or an exception (a
\* KeyError, or one whose message names the symbol, the date, or neither).
AkOutcomes ==
    {"frame", "frame_nat", "empty", "none", "KeyError", "symbol_error", "date_error", "other_error"}

Fetched(kind) == [kind |-> kind, exc |-> "-"]
FetchRaised(exc) == [kind |-> "raise", exc |-> exc]

\* fetch_daily_data.  With a stock code or a date that cannot be parsed the
\* exception is raised before start_str is assigned, and the handler's debug
\* print raises UnboundLocalError.
FetchDailyData(argsOk, ak) ==
    IF ~argsOk THEN FetchRaised("UnboundLocalError")
    ELSE IF ak \in {"frame", "frame_nat"} THEN Fetched(ak)
    ELSE IF ak \in {"empty", "none"} THEN Fetched("None")
    ELSE IF ak = "KeyError" THEN Fetched("None")
    ELSE IF ak \in {"symbol_error", "date_error"} THEN FetchRaised("ValueError")
    ELSE Fetched("None")

\* get_stock_info, given what normalize_code returned
StockInfoOf(r) ==
    IF r.kind = "raise" THEN OnException("re.error")
    ELSE IF r.kind = "pair" THEN ToolSuccess("stock_info")
    ELSE ToolError("not_found")

\* get_stock_daily, given what fetch_daily_data did
StockDailyOf(f) ==
    IF f.kind = "raise" THEN OnException(f.exc)
    ELSE IF f.kind \in {"None", "empty"} THEN ToolError("no_data")
    ELSE IF f.kind = "frame_nat" THEN OnException("ValueError")
    ELSE ToolSuccess("records")

\* What fetch_financial_report gives for one report type: a frame, an empty
\* frame, None, or a frame whose conversion to records raises.
ReportFetchOutcomes == {"frame", "empty", "none", "raise"}
ReportTypes == <<"balance_sheet", "profit_sheet", "cash_flow_sheet">>
ReportRequests == {"all", "balance_sheet"}
RequestedTypes(report_type) == IF report_type = "all" THEN ReportTypes ELSE <<report_type>>

\* get_financial_report, given the outcome for each requested type in turn
FinancialReportOf(outs) ==
    IF \E i \in 1..Len(outs) : outs[i] = "raise" THEN OnException("Exception")
    ELSE IF \A i \in 1..Len(outs) : outs[i] # "frame" THEN ToolError("no_financial_data")
    ELSE ToolSuccess("reports")

\* The daily_data given to calculate_indicators: None, the empty list, or the
\* records of a frame.
IndicatorFrames == {f \in Frames : f.none \/ f.nrows <= MaxIndicatorRows}

\* calculate_indicators; processorRaises is the processor raising on the data
IndicatorsOf(f, processorRaises) ==
    IF f.none \/ f.nrows = 0 THEN ToolError("empty_data")
    ELSE IF processorRaises THEN OnException("Exception")
    ELSE ToolSuccess("indicators")

IndicatorsValue(f, processorRaises) ==
    IF f.none \/ f.nrows = 0 \/ processorRaises
    THEN [metrics |-> EmptyDict, trend |-> EmptyTrend]
    ELSE [metrics |-> CalculateMetrics(f), trend |-> GetTrendAnalysis(f)]

ToolCalled(op, input, collab) == [op |-> op, input |-> input, collab |-> collab]
NoToolOp == ToolCalled("-", "-", "-")

GetStockInfo(p, name_or_code) ==
    LET r == NormalizeCode(cache, p, name_or_code) IN
    /\ nTools < MaxTools
    /\ cache' = r.cache
    /\ fetches' = fetches \o r.fetched
    /\ toolOp' = ToolCalled("get_stock_info", name_or_code, r.ret)
    /\ toolOut' = StockInfoOf(r.ret)
    /\ nTools' = nTools + 1
    /\ UNCHANGED <<lastOp, ret, nOps>>
    /\ UNCHANGED nonToolVars

GetStockDaily(argsOk, ak) ==
    /\ nTools < MaxTools
    /\ toolOp' = ToolCalled("get_stock_daily", argsOk, FetchDailyData(argsOk, ak))
    /\ toolOut' = StockDailyOf(FetchDailyData(argsOk, ak))
    /\ nTools' = nTools + 1
    /\ UNCHANGED lookupVars
    /\ UNCHANGED nonToolVars

GetFinancialReport(report_type, outs) ==
    /\ nTools < MaxTools
    /\ Len(outs) = Len(RequestedTypes(report_type))
    /\ toolOp' = ToolCalled("get_financial_report", report_type, outs)
    /\ toolOut' = FinancialReportOf(outs)
    /\ nTools' = nTools + 1
    /\ UNCHANGED lookupVars
    /\ UNCHANGED nonToolVars

CalculateIndicators(daily_data, processorRaises) ==
    /\ nTools < MaxTools
    /\ toolOp' = ToolCalled("calculate_indicators", daily_data,
                            IndicatorsValue(daily_data, processorRaises))
    /\ toolOut' = IndicatorsOf(daily_data, processorRaises)
    /\ nTools' = nTools + 1
    /\ UNCHANGED lookupVars
    /\ UNCHANGED nonToolVars

ToolsIdle ==
    /\ toolOp = NoToolOp
    /\ toolOut = NoTool
    /\ nTools = 0

(***************************************************************************)
(* Concurrent first access to the stock list                               *)
(*                                                                         *)
(* _get_stock_list takes no lock: the test of the cache, the call of the   *)
(* provider, the assignment and the final read are separate steps of a     *)
(* thread.                                                                 *)
(***************************************************************************)

\* Threads calling lookups on the shared stock_lookup instance at once.
MaxThreads == 2
Threads == 1..MaxThreads

NotFetched == [raises |-> FALSE, rows |-> <<"-">>]

\* What the try/except assigns to the cache after the provider did p
StoreListMutKeepFirst(c, p) == IF c.set THEN c ELSE Populated(IF p.raises THEN <<>> ELSE p.rows)
StoreList(c, p) == Populated(IF p.raises THEN <<>> ELSE p.rows)

\* `if self._stock_list_cache is None`
RaceTest(t) ==
    /\ racePc[t] = "start"
    /\ racePc' = [racePc EXCEPT ![t] = IF NeedsFetch(cache) THEN "fetching" ELSE "stored"]
    /\ UNCHANGED <<raceGot, raceRet, raceLast>>
    /\ UNCHANGED lookupVars
    /\ UNCHANGED nonRaceVars

\* ak.stock_info_a_code_name() returns or raises
RaceFetch(t, p) ==
    /\ racePc[t] = "fetching"
    /\ fetches' = Append(fetches, p)
    /\ raceGot' = [raceGot EXCEPT ![t] = p]
    /\ racePc' = [racePc EXCEPT ![t] = "fetched"]
    /\ UNCHANGED <<raceRet, raceLast>>
    /\ UNCHANGED <<cache, lastOp, ret, nOps>>
    /\ UNCHANGED nonRaceVars

\* the assignment to self._stock_list_cache, in the try or in the except clause
RaceStore(t) ==
    /\ racePc[t] = "fetched"
    /\ cache' = StoreList(cache, raceGot[t])
    /\ raceLast' = t
    /\ racePc' = [racePc EXCEPT ![t] = "stored"]
    /\ UNCHANGED <<raceGot, raceRet>>
    /\ UNCHANGED <<fetches, lastOp, ret, nOps>>
    /\ UNCHANGED nonRaceVars

\* `return self._stock_list_cache`
RaceReturn(t) ==
    /\ racePc[t] = "stored"
    /\ raceRet' = [raceRet EXCEPT ![t] = cache]
    /\ racePc' = [racePc EXCEPT ![t] = "done"]
    /\ UNCHANGED <<raceGot, raceLast>>
    /\ UNCHANGED lookupVars
    /\ UNCHANGED nonRaceVars

RaceIdle ==
    /\ racePc = [t \in Threads |-> "start"]
    /\ raceGot = [t \in Threads |-> NotFetched]
    /\ raceRet = [t \in Threads |-> Unset]
    /\ raceLast = 0

Init ==
    InitClient /\ InitLookup /\ MetricsIdle /\ ReportIdle /\ ParseIdle /\ ToolsIdle /\ RaceIdle

NextClient == CallDeepseek \/ \E o \in TransportOutcomes : Attempt(o)

SpecClient == Init /\ [][NextClient]_vars

\* The call runs on its caller's thread until it returns or raises: a step
\* that can be taken is taken.
SpecClientFair == SpecClient /\ WF_vars(NextClient)

NextLookup ==
    \E p \in ProviderOutcomes, arg \in Identifiers :
        \/ CallLookupByName(p, arg)
        \/ CallLookupByCode(p, arg)
        \/ CallNormalizeCode(p, arg)
        \/ CallValidateCode(p, arg)

\* The lookup runs in a process whose clients are idle.
InitLookupProcess == Init /\ site = "report" /\ api_key

SpecLookup == InitLookupProcess /\ [][NextLookup]_vars

NextMetrics == CallCalculateMetrics \/ CallGetTrendAnalysis

InitMetricsProcess ==
    /\ InitClient /\ site = "report" /\ api_key
    /\ InitLookup
    /\ InitMetrics
    /\ ReportIdle
    /\ ParseIdle
    /\ ToolsIdle
    /\ RaceIdle

SpecMetrics == InitMetricsProcess /\ [][NextMetrics]_vars

NextReport ==
    \/ \E hasData \in BOOLEAN, prep \in PrepOutcomes : GenerateReport(hasData, prep)
    \/ ReportCallDeepseek
    \/ \E o \in TransportOutcomes : ReportAttempt(o)
    \/ ReportReturn

InitReportProcess == Init /\ site = "report"

SpecReport == InitReportProcess /\ [][NextReport]_vars

NextParse ==
    \/ Parse
    \/ ParseCallDeepseek
    \/ \E o \in TransportOutcomes : ParseAttempt(o)
    \/ \E text \in ResponseTexts : ParseReturn(text)

InitParseProcess == Init /\ site = "parse"

SpecParse == InitParseProcess /\ [][NextParse]_vars

NextTools ==
    \/ \E p \in ProviderOutcomes, arg \in Identifiers : GetStockInfo(p, arg)
    \/ \E argsOk \in BOOLEAN, ak \in AkOutcomes : GetStockDaily(argsOk, ak)
    \/ \E t \in ReportRequests, outs \in [1..1 -> ReportFetchOutcomes] \cup [1..3 -> ReportFetchOutcomes] :
            GetFinancialReport(t, outs)
    \/ \E f \in IndicatorFrames, processorRaises \in BOOLEAN : CalculateIndicators(f, processorRaises)

InitToolsProcess == Init /\ site = "report" /\ api_key

SpecTools == InitToolsProcess /\ [][NextTools]_vars

NextRace ==
    \E t \in Threads :
        \/ RaceTest(t)
        \/ \E p \in ProviderOutcomes : RaceFetch(t, p)
        \/ RaceStore(t)
        \/ RaceReturn(t)

InitRaceProcess == Init /\ site = "report" /\ api_key

SpecRace == InitRaceProcess /\ [][NextRace]_vars

(***************************************************************************)
(* Properties of the remote-call client (checked under SpecClient)         *)
(***************************************************************************)

RECURSIVE SumSeq(_)
SumSeq(q) == IF q = <<>> THEN 0 ELSE Head(q) + SumSeq(Tail(q))

TotalSlept == SumSeq(sleeps)

\* The three causes the contract names as retried.
IsTimeout(o) == o.exc = "Timeout"
IsStatus(o, st) == o.exc = "none" /\ o.status = st
IsOtherHTTPError(o) == o.exc = "none" /\ o.status >= 400 /\ o.status \notin {401, 429}
IsNonHTTPException(o) ==
    \/ o.exc \notin {"none", "Timeout"}
    \/ o.exc = "none" /\ o.status < 400 /\ Raised(o) # "none"
IsRetryCause(o) == IsTimeout(o) \/ IsStatus(o, 429) \/ IsNonHTTPException(o)
IsMalformed(o) == o.exc = "none" /\ o.status = 200 /\ o.body \in {"nochoices", "emptychoices"}

\* Attempt i was the last thing the call did: it raised, no sleep and no post followed.
FailedAtOnce(i) ==
    /\ i = Len(posts)
    /\ pc = "raised"
    /\ \A j \in 1..Len(sleeps) : sleptAfter[j] < i

AllThreeRetryable ==
    /\ Len(posts) = 3
    /\ \A i \in 1..3 : IsRetryCause(posts[i])

\* C1: with a credential present the transport is invoked at most 3 times in one
\* call, and every attempt that was followed by another one ended in a timeout,
\* an HTTP 429 or a non-HTTP exception (and was the first or the second attempt).
C1_AtMostThreeAttempts ==
    /\ Len(posts) <= 3
    /\ (Len(posts) > 0 => api_key)
    /\ \A i \in 1..Len(posts) : i < Len(posts) => (IsRetryCause(posts[i]) /\ i < 3)

C1_Witness == Len(posts) = 3 /\ pc = "raised" /\ IsStatus(posts[2], 429)

\* C2: an HTTP 401 on any attempt makes the call raise the authentication error
\* at once: no sleep and no transport invocation follows it.
C2_NoRetryAfter401 ==
    \A i \in 1..Len(posts) :
        IsStatus(posts[i], 401) => (FailedAtOnce(i) /\ result = Err("auth", 0))

C2_Witness ==
    /\ Len(posts) = 3 /\ IsStatus(posts[3], 401)
    /\ Len(sleeps) = 2 /\ result = Err("auth", 0)

\* C3: a successful HTTP response without "choices", or with an empty "choices"
\* list, makes the call fail on that attempt: no sleep and no transport
\* invocation follows it.
C3_MalformedNotRetried ==
    \A i \in 1..Len(posts) : IsMalformed(posts[i]) => FailedAtOnce(i)

\* C4: timeout, timeout, success: the call returns the content, having slept
\* base_delay and then 2*base_delay (base_delay 2 for reports, 1 for parsing).
C4_TwoTimeoutsThenSuccess ==
    LET base == IF site = "report" THEN 2 ELSE 1 IN
    (/\ Len(posts) = 3
     /\ IsTimeout(posts[1]) /\ IsTimeout(posts[2])
     /\ posts[3] = Resp(200, "valid"))
    => (/\ pc = "returned"
        /\ result = Content
        /\ sleeps = <<base, 2 * base>>
        /\ TotalSlept = base + 2 * base)

C4_Witness ==
    /\ site = "report"
    /\ posts = <<Exc("Timeout"), Exc("Timeout"), Resp(200, "valid")>>
    /\ pc = "returned"
    /\ TotalSlept = 6

\* C5: when all 3 attempts end in retryable failures the call raises the error
\* of the third attempt's cause: timeout, rate limit (429), or generic failure
\* for any other non-HTTP exception, whatever the first two causes were.
C5_TerminalCause ==
    AllThreeRetryable =>
        /\ pc = "raised"
        /\ result = Err(IF IsTimeout(posts[3]) THEN "timeout"
                        ELSE IF IsStatus(posts[3], 429) THEN "ratelimit"
                        ELSE "failed", 0)

C5_Witness ==
    /\ AllThreeRetryable
    /\ IsNonHTTPException(posts[1]) /\ IsTimeout(posts[2]) /\ IsStatus(posts[3], 429)
    /\ result = Err("ratelimit", 0)

\* C6: an HTTP error status other than 401 and 429 makes the call fail on that
\* attempt with an error reporting the status code: no sleep and no transport
\* invocation follows it.
C6_OtherHTTPFailsAtOnce ==
    \A i \in 1..Len(posts) :
        IsOtherHTTPError(posts[i]) =>
            (FailedAtOnce(i) /\ result = Err("http", posts[i].status))

C6_Witness ==
    /\ Len(posts) = 2 /\ IsStatus(posts[2], 500)
    /\ Len(sleeps) = 1 /\ result = Err("http", 500)

\* C7: without a credential the call fails with the configuration error before
\* any transport invocation and any sleep, and nothing is retried.
C7_NoCredentialFailsFast ==
    ~api_key =>
        /\ posts = <<>>
        /\ sleeps = <<>>
        /\ pc \in {"idle", "raised"}
        /\ (pc = "raised" => result = Err("config", 0))

C7_Witness == ~api_key /\ pc = "raised" /\ result = Err("config", 0)

\* C8 as stated: the worst case (all 3 attempts fail with retried causes) sleeps
\* 7 * base_delay in total.
C8_WorstCaseSevenBase ==
    (AllThreeRetryable /\ pc = "raised") => TotalSlept = 7 * InitialRetryDelay(site)

\* C8 amended: one call sleeps at most twice and at most base_delay * (1 + 2) =
\* 3 * base_delay in total, and sleeps exactly that when all 3 attempts fail with
\* retried causes: no sleep follows the third attempt.
C8_WorstCaseThreeBase ==
    LET base == IF site = "report" THEN 2 ELSE 1 IN
    /\ Len(sleeps) <= 2
    /\ TotalSlept <= 3 * base
    /\ (AllThreeRetryable => TotalSlept = 3 * base)

C8_Witness == AllThreeRetryable /\ pc = "raised" /\ site = "parse" /\ TotalSlept = 3

(***************************************************************************)
(* Properties of the identifier lookup (checked under SpecLookup)          *)
(***************************************************************************)

\* C9: over any series of lookup_by_name, lookup_by_code, normalize_code and
\* validate_code calls the provider is called at most once, whatever that call
\* did, and a cache that is set is never assigned again.
C9_FetchedAtMostOnce ==
    /\ [](Len(fetches) <= 1 /\ (cache.set <=> Len(fetches) = 1))
    /\ [][cache.set => (cache' = cache /\ fetches' = fetches)]_vars

C9_Witness ==
    /\ nOps = MaxOps
    /\ Len(fetches) = 1
    /\ lastOp.cacheBefore.set
    /\ lastOp.op = "normalize_code"
    /\ ~HasDot(lastOp.arg)

\* C10: once the first population of the cache has failed the cache holds the
\* empty list for good: every later lookup or normalize call returns None (and
\* validate_code False) without a provider call, also when the provider would
\* now return a list.
C10_FailedFetchCachedForGood ==
    (Len(fetches) >= 1 /\ fetches[1].raises) =>
        /\ cache = Populated(<<>>)
        /\ Len(fetches) = 1
        /\ lastOp.cacheBefore.set =>
               ret = (IF lastOp.op = "validate_code" THEN RetBool(FALSE) ELSE RetNone)

C10_Witness ==
    /\ Len(fetches) = 1 /\ fetches[1].raises
    /\ lastOp.cacheBefore.set
    /\ lastOp.op = "normalize_code"
    /\ lastOp.provider = [raises |-> FALSE, rows |-> ListA]
    /\ lastOp.arg = <<"6","0","0","5","1","9">>
    /\ ret = RetNone


\* The suffix the data model derives from a code's leading digit.
DerivedSuffix(code) ==
    IF code # <<>> /\ code[1] \in {"0", "3"} THEN <<"S", "Z">> ELSE <<"S", "H">>

\* sub occurs in s, read literally
SubstringOf(sub, s) == \E i \in 1..(Len(s) + 1) : IsPrefixAt(s, sub, i)

EntryPair(r) == RetPair(WithSuffix(r.code, DerivedSuffix(r.code)), r.name)

NormalizeCalled == lastOp.op = "normalize_code"

\* What the three stages of C11 give for identifier id on the list rows.
C11_Expected(rows, id) ==
    LET exact == FirstIndex({i \in 1..Len(rows) : rows[i].name = id})
        fuzzy == FirstIndex({i \in 1..Len(rows) : SubstringOf(id, rows[i].name)})
        bycode == FirstIndex({i \in 1..Len(rows) : rows[i].code = id})
        hit == IF exact # 0 THEN exact ELSE IF fuzzy # 0 THEN fuzzy ELSE bycode
    IN  IF hit = 0 THEN RetNone ELSE EntryPair(rows[hit])

\* C11: for an identifier without "." normalize_code returns the first hit of:
\* the first entry whose name equals it, the first entry whose name contains it
\* as a substring, the entry whose code equals it; and None, without raising,
\* exactly when none of the three matches.
C11_NameThenFuzzyThenCode ==
    (NormalizeCalled /\ ~HasDot(lastOp.arg)) => ret = C11_Expected(cache.rows, lastOp.arg)

\* C12 as stated: for an identifier with a "." the lookup is by exact code match
\* on the part before the first ".", never by name; a match returns the code
\* with the given suffix-part, or with the derived suffix when that part is
\* empty; no match returns None.
C12_DotLooksUpExactCodePart ==
    (NormalizeCalled /\ HasDot(lastOp.arg)) =>
        LET code_part == SplitDot0(lastOp.arg)
            given == SplitDot1(lastOp.arg)
            rows == cache.rows
            hit == FirstIndex({i \in 1..Len(rows) : rows[i].code = code_part})
        IN  ret = IF hit = 0 THEN RetNone
                  ELSE RetPair(WithSuffix(rows[hit].code,
                                   IF given = <<>> THEN DerivedSuffix(rows[hit].code) ELSE given),
                               rows[hit].name)

\* C12 amended: the code match is on the part before the first "." with its
\* surrounding whitespace stripped; the suffix-part is what stands between the
\* first and the second ".".
C12_DotLooksUpStrippedCodePart ==
    (NormalizeCalled /\ HasDot(lastOp.arg)) =>
        LET code_part == Strip(SplitDot0(lastOp.arg))
            given == SplitDot1(lastOp.arg)
            rows == cache.rows
            hit == FirstIndex({i \in 1..Len(rows) : rows[i].code = code_part})
        IN  ret = IF hit = 0 THEN RetNone
                  ELSE RetPair(WithSuffix(rows[hit].code,
                                   IF given = <<>> THEN DerivedSuffix(rows[hit].code) ELSE given),
                               rows[hit].name)

C12_Witness ==
    /\ NormalizeCalled
    /\ lastOp.arg = <<" ","6","0","0","5","1","9",".","S","H">>
    /\ ret = RetPair(<<"6","0","0","5","1","9",".","S","H">>, <<"M","T">>)

\* C13: every non-None result of normalize_code carries the suffix SH or SZ that
\* its code's leading digit gives: 6 -> SH, 0 or 3 -> SZ, otherwise SH.
C13_SuffixFromLeadingDigit ==
    (NormalizeCalled /\ ret.kind = "pair") =>
        LET code == SplitDot0(ret.code) IN
        ret.code = WithSuffix(code, DerivedSuffix(code))

\* C14: for every entry of the reference list, normalize_code of its code and
\* normalize_code of its name both give that entry's code with the suffix of its
\* leading digit, and that entry's name.
C14_CodeAndNameAgree ==
    cache.set =>
        \A i \in 1..Len(cache.rows) : \A p \in ProviderOutcomes :
            /\ NormalizeCode(cache, p, cache.rows[i].code).ret = EntryPair(cache.rows[i])
            /\ NormalizeCode(cache, p, cache.rows[i].name).ret = EntryPair(cache.rows[i])
            /\ (NormalizeCalled /\ lastOp.arg \in {cache.rows[i].code, cache.rows[i].name})
                   => ret = EntryPair(cache.rows[i])

C14_Witness ==
    /\ cache.rows = ListA
    /\ NormalizeCalled
    /\ lastOp.arg = <<"A">>
    /\ ret = RetPair(<<"8","3","0","7","9","9",".","S","H">>, <<"A">>)


(***************************************************************************)
(* Claims on the metrics engine                                            *)
(***************************************************************************)

FourCloseKeys == {"latest_close", "max_close", "min_close", "mean_close"}
VolumeKeys == {"mean_volume", "max_volume", "latest_volume"}
MultiRowKeys ==
    {"change", "change_pct", "max_daily_gain_pct", "max_daily_loss_pct", "max_drawdown_pct",
     "max_runup_pct", "volatility_pct"}
MetricsKeys == DOMAIN metricsOut.value
HasMetricsClose == MetricsColumn(df.columns, "close") # 0
HasMetricsVolume == MetricsColumn(df.columns, "volume") # 0
HasTrendClose == TrendCloseColumn(df.columns) # 0
Rows == IF df.none THEN 0 ELSE df.nrows

\* C18 as stated: an empty series gives an empty mapping, and every one-row
\* series gives exactly the four keys latest/max/min/mean close.
C18_SingleRowOnlyFourKeys ==
    metricsOut.called =>
        /\ (Rows = 0 => MetricsKeys = {})
        /\ (Rows = 1 /\ HasMetricsClose => MetricsKeys = FourCloseKeys)

\* C18 amended: an empty series, or one without a close column, gives an empty
\* mapping; a one-row series with a close column gives the four close keys,
\* plus the three volume keys exactly when a volume column is recognised, and
\* no change, single-step gain/loss, drawdown, run-up or volatility key.
C18_SingleRowCloseAndVolumeKeys ==
    metricsOut.called =>
        /\ ((Rows = 0 \/ ~HasMetricsClose) => MetricsKeys = {})
        /\ (Rows = 1 /\ HasMetricsClose =>
                /\ MetricsKeys = FourCloseKeys \cup (IF HasMetricsVolume THEN VolumeKeys ELSE {})
                /\ MetricsKeys \cap MultiRowKeys = {})

C18_Witness ==
    /\ metricsOut.called
    /\ Rows = 1
    /\ HasMetricsVolume
    /\ MetricsKeys = FourCloseKeys \cup VolumeKeys

IsDefaultTrend(t) == ~t.empty /\ t.direction = "flat" /\ t.strength = "weak" /\ ~t.described

\* C19 as stated: with fewer than 2 rows (0 or 1) the trend is the default
\* neutral assessment: flat, weak, empty description.
C19_FewerThanTwoRowsDefault ==
    (trendOut.called /\ ~df.none /\ HasTrendClose /\ Rows < 2) => IsDefaultTrend(trendOut.value)

\* C19 amended: with exactly 1 row and a close column the trend is the default
\* neutral assessment; with 0 rows it is the empty mapping.
C19_OneRowDefaultZeroRowsEmpty ==
    trendOut.called =>
        /\ (~df.none /\ HasTrendClose /\ Rows = 1 => IsDefaultTrend(trendOut.value))
        /\ (Rows = 0 => trendOut.value = EmptyTrend)

C19_Witness ==
    /\ trendOut.called
    /\ HasTrendClose
    /\ Rows = 1
    /\ trendOut.value = DefaultTrend

AllClosesEqual(c) == \A i, j \in 1..Len(c) : c[i] = c[j]
MetricsCloses == df.data[MetricsColumn(df.columns, "close")]
TrendCloses == df.data[TrendCloseColumn(df.columns)]

\* C20: with at least 2 rows and all closes equal, the period return is 0%, the
\* annualized volatility 0% and the max drawdown 0%, and the trend is flat and
\* weak.
C20_EqualClosesAllZero ==
    /\ (metricsOut.called /\ Rows >= 2 /\ HasMetricsClose /\ AllClosesEqual(MetricsCloses)) =>
            /\ metricsOut.value["change_pct"] = Zero
            /\ metricsOut.value["volatility_pct"] = Zero
            /\ metricsOut.value["max_drawdown_pct"] = Zero
    /\ (trendOut.called /\ Rows >= 2 /\ HasTrendClose /\ AllClosesEqual(TrendCloses)) =>
            /\ trendOut.value.direction = "flat"
            /\ trendOut.value.strength = "weak"

\* What does hold for equal closes: the return and the drawdown are 0 and the
\* trend is flat and weak; the volatility is 0 from 3 rows on and NaN for 2.
C20_EqualClosesVolatilityFromThreeRows ==
    /\ (metricsOut.called /\ Rows >= 2 /\ HasMetricsClose /\ AllClosesEqual(MetricsCloses)) =>
            /\ metricsOut.value["change_pct"] = Zero
            /\ metricsOut.value["max_drawdown_pct"] = Zero
            /\ metricsOut.value["volatility_pct"] = IF Rows = 2 THEN NaN ELSE Zero
    /\ (trendOut.called /\ Rows >= 2 /\ HasTrendClose /\ AllClosesEqual(TrendCloses)) =>
            /\ trendOut.value.direction = "flat"
            /\ trendOut.value.strength = "weak"


(***************************************************************************)
(* Claims on the report generator and the prompt parser                    *)
(***************************************************************************)

\* C16: generate_report never raises; a failure in the preparation (data
\* summary, metrics table, trend text) or in the remote call, or a response
\* without text, comes back as an error string.
C16_GenerateReportNeverRaises ==
    /\ reportPc # "raised"
    /\ reportOut.kind # "raised"

\* What the try block does cover: once the remote call is being made, every
\* way it ends comes back as text, and a failed call or a response without text
\* as an error string.
C16_CallFailuresBecomeText ==
    reportPc = "returned" =>
        /\ reportOut.kind \in {"text", "error_text"}
        /\ (~result.ok \/ result = NoneResult) => reportOut.kind = "error_text"

RemoteFailureKinds == {"config", "auth", "timeout", "ratelimit", "failed", "http"}
ParseFinished == parsePc \in {"returned", "raised"}

ToolShape(op) ==
    IF op = "get_stock_info" THEN "stock_info"
    ELSE IF op = "get_stock_daily" THEN "records"
    ELSE IF op = "get_financial_report" THEN "reports"
    ELSE "indicators"

\* C15: whatever its collaborators do (return a value, return None or nothing,
\* raise), a facade operation returns its success shape or {"error": message},
\* and no fault crosses the boundary; a stock that is not found and an absent
\* or empty data result are returned as {"error": message}.
C15_NoFaultCrossesBoundary ==
    toolOp.op # "-" =>
        /\ toolOut.kind \in {ToolShape(toolOp.op), "error"}
        /\ (toolOp.op = "get_stock_info" /\ toolOp.collab.kind # "pair") => toolOut.kind = "error"
        /\ (toolOp.op = "get_stock_daily" /\ toolOp.collab.kind # "frame") => toolOut.kind = "error"
        /\ (toolOp.op = "get_financial_report"
              /\ \A i \in 1..Len(toolOp.collab) : toolOp.collab[i] # "frame") => toolOut.kind = "error"
        /\ (toolOp.op = "calculate_indicators" /\ (toolOp.input.none \/ toolOp.input.nrows = 0)) =>
                toolOut.kind = "error"

C15_Witness ==
    /\ toolOp.op = "get_stock_daily"
    /\ toolOp.collab = FetchRaised("UnboundLocalError")
    /\ toolOut = ToolError("UnboundLocalError")
    /\ nTools = 2


(***************************************************************************)
(* Claims on the numbers of the metrics engine                             *)
(***************************************************************************)

StrictlyIncreasing(c) == \A i \in 1..(Len(c) - 1) : c[i] < c[i + 1]

\* C21: for a strictly increasing close series of at least 2 rows the trend
\* direction is up and the max drawdown is 0%.
C21_IncreasingUpNoDrawdown ==
    /\ (trendOut.called /\ Rows >= 2 /\ HasTrendClose /\ StrictlyIncreasing(TrendCloses)) =>
            trendOut.value.direction = "up"
    /\ (metricsOut.called /\ Rows >= 2 /\ HasMetricsClose /\ StrictlyIncreasing(MetricsCloses)) =>
            metricsOut.value["max_drawdown_pct"] = Zero

C21_Witness ==
    /\ metricsOut.called
    /\ trendOut.called
    /\ df.columns = <<ColCloseZh, ColVolumeZh>>
    /\ MetricsCloses = <<1, 2, 3>>
    /\ trendOut.value.direction = "up"
    /\ metricsOut.value["max_drawdown_pct"] = Zero

\* C25: calculate_metrics and get_trend_analysis take the same column for the
\* close price, also when more than one column name matches the close aliases.
C25_SameCloseColumn ==
    (metricsOut.called /\ trendOut.called /\ ~IsEmptyFrame(df)) =>
        MetricsColumn(df.columns, "close") = TrendCloseColumn(df.columns)

\* What does hold: both recognise the same columns as close columns, the
\* metrics take the last of them and the trend the first.
C25_LastAgainstFirstCloseColumn ==
    (metricsOut.called /\ trendOut.called /\ ~IsEmptyFrame(df)) =>
        LET closeCols == {i \in 1..Len(df.columns) : ColField(df.columns[i]) = "close"} IN
        /\ MetricsColumn(df.columns, "close") = LastIndex(closeCols)
        /\ TrendCloseColumn(df.columns) = FirstIndex(closeCols)

\* The largest peak-to-trough decline of a series, in percent:
\* min over i of (c[i] / max(c[1..i]) - 1) * 100.
PeakToTroughPct(c) ==
    RMul(RMinOf([i \in 1..Len(c) |-> RSub(RDiv(c[i], RMaxOf(SubSeq(c, 1, i))), Rat(1, 1))]),
         Hundred)

\* C26: for at least 2 rows the max drawdown is the largest peak-to-trough
\* decline of the closes, the first close included.
C26_DrawdownCountsFirstClose ==
    (metricsOut.called /\ Rows >= 2 /\ HasMetricsClose) =>
        metricsOut.value["max_drawdown_pct"] = PeakToTroughPct(AsRats(MetricsCloses))

\* What does hold: it is the largest peak-to-trough decline of the closes
\* after the first one.
C26_DrawdownSkipsFirstClose ==
    (metricsOut.called /\ Rows >= 2 /\ HasMetricsClose) =>
        metricsOut.value["max_drawdown_pct"] = PeakToTroughPct(Tail(AsRats(MetricsCloses)))


(***************************************************************************)
(* Claims on concurrent first access                                       *)
(***************************************************************************)

RaceAllDone == \A t \in Threads : racePc[t] = "done"
RaceFetchers == {t \in Threads : raceGot[t] # NotFetched}

\* C22: nothing keeps two threads from both finding the cache unpopulated:
\* every thread that found it so fetches from the provider, each of them
\* assigns the cache, and when all are done the cache holds what the thread
\* that assigned last had fetched.
C22_LastFetchWritten ==
    /\ Len(fetches) = Cardinality(RaceFetchers)
    /\ (raceLast # 0) => (raceLast \in RaceFetchers /\ cache = StoreList(Unset, raceGot[raceLast]))
    /\ RaceAllDone => (raceLast # 0 /\ \A t \in RaceFetchers : racePc[t] = "done")

\* Two threads fetched different lists; thread 2 assigned first, thread 1 last.
C22_Witness ==
    /\ RaceAllDone
    /\ fetches = <<[raises |-> FALSE, rows |-> ListA], [raises |-> FALSE, rows |-> ListB]>>
    /\ raceGot[1] = [raises |-> FALSE, rows |-> ListA]
    /\ raceGot[2] = [raises |-> FALSE, rows |-> ListB]
    /\ raceRet[2] = Populated(ListB)
    /\ raceLast = 1
    /\ cache = Populated(ListA)


(***************************************************************************)
(* Claims on the backoff and the termination of the remote call            *)
(***************************************************************************)

RECURSIVE Pow2(_)
Pow2(k) == IF k = 0 THEN 1 ELSE 2 * Pow2(k - 1)

\* C23: the k-th retry of a call sleeps base_delay * 2^(k-1) whatever caused the
\* retries (timeout, 429, non-HTTP exception, in any mix); the k-th sleep
\* follows the k-th attempt and none follows the third, so a call sleeps 0,
\* base_delay or 3 * base_delay in total.
C23_OneBackoffCounter ==
    /\ \A k \in 1..Len(sleeps) :
            /\ sleeps[k] = InitialRetryDelay(site) * Pow2(k - 1)
            /\ sleptAfter[k] = k
            /\ k < max_retries
            /\ IsRetryCause(posts[k])
    /\ TotalSlept \in {0, InitialRetryDelay(site), 3 * InitialRetryDelay(site)}

C23_Witness ==
    /\ site = "report"
    /\ Len(posts) = 3
    /\ IsStatus(posts[1], 429)
    /\ posts[2] = Exc("ConnectionError")
    /\ IsTimeout(posts[3])
    /\ sleeps = <<2, 4>>
    /\ pc = "raised"

Finished == pc \in {"returned", "raised"}
Succeeded(o) == Raised(o) = "none"

\* C24: every call ends, by returning the message content of a successful
\* attempt or by raising; it never returns by running out of attempts; a
\* successful attempt is the last thing the call does.
C24_ReturnsContentOrRaises ==
    /\ [](pc = "returned" =>
            /\ Len(posts) >= 1
            /\ Succeeded(posts[Len(posts)])
            /\ result = (IF posts[Len(posts)].body = "nullcontent" THEN NoneResult ELSE Content))
    /\ [](pc = "raised" => ~result.ok)
    /\ [](\A i \in 1..Len(posts) :
            Succeeded(posts[i]) =>
                (i = Len(posts) /\ pc = "returned" /\ \A j \in 1..Len(sleeps) : sleptAfter[j] < i))
    /\ [][Finished => (posts' = posts /\ sleeps' = sleeps /\ pc' = pc)]_vars
    /\ <>Finished

C24_Witness ==
    /\ pc = "returned"
    /\ Len(posts) = 2
    /\ IsNonHTTPException(posts[1])
    /\ posts[2] = Resp(200, "valid")
    /\ sleeps = <<InitialRetryDelay(site)>>
    /\ result = Content

====
